---- MODULE Spec2Model ----
(***************************************************************************)
(* Model of the dependency visualizer backend:                             *)
(*   backend/app/routes/analyze.py   - the /analyze request handler        *)
(*   backend/app/utils/file_handler.py - module names and AST imports      *)
(*                                                                         *)
(* Strings are sequences of tokens.  A token is either a separator         *)
(* ("/", ".", "\\") or an identifier chunk ("a", "py", "__init__").  Every *)
(* string operation of the code (split, basename, splitext, startswith,    *)
(* endswith, normpath) cuts strings at separators only, so the token view  *)
(* loses nothing the code looks at.                                        *)
(***************************************************************************)
EXTENDS Integers, Sequences, FiniteSets, TLC

VARIABLES
    pc,              \* position of the request inside analyze_code
    upload,          \* the request: [filename, valid, entries]
    tmpdir,          \* the TemporaryDirectory: [exists, files]
    zstage,          \* position inside _safe_extract_zip: "check" | "loop"
    zidx,            \* index of the next entry of zf.infolist()
    error,           \* the exception propagating out of the handler, or "none"
    code_files,      \* result of get_code_files(tmpdir)
    fidx,            \* index of the next file of the "Build graph" loop
    g,               \* the nx.DiGraph: [nodes, edges]
    internal_nodes,  \* set of rel_path
    external_nodes,  \* set of dep_name
    skipped,         \* skipped counter
    cycles,          \* the cycles list
    response,        \* the returned JSON body, or NoResponse
    fh               \* state of a file_handler.py scan: [pc, path, syntax_ok, tree, current_module, imports]

vars == <<pc, upload, tmpdir, zstage, zidx, error, code_files, fidx, g,
          internal_nodes, external_nodes, skipped, cycles, response, fh>>

analyzeVars == <<pc, upload, tmpdir, zstage, zidx, error, code_files, fidx, g,
                 internal_nodes, external_nodes, skipped, cycles, response>>

(***************************************************************************)
(* Generic string operations (Python str / os.path on POSIX)               *)
(***************************************************************************)
SLASH == "/"
DOT == "."
BACKSLASH == "\\"

\* str.startswith
startswith(s, prefix) ==
    /\ Len(s) >= Len(prefix)
    /\ SubSeq(s, 1, Len(prefix)) = prefix

\* str.endswith
endswith(s, suffix) ==
    /\ Len(s) >= Len(suffix)
    /\ SubSeq(s, Len(s) - Len(suffix) + 1, Len(s)) = suffix

\* str.rfind for a one-token needle; 0 when absent (Python's -1, shifted by one)
rfind(s, t) ==
    LET hits == {i \in 1..Len(s) : s[i] = t}
    IN IF hits = {} THEN 0 ELSE CHOOSE i \in hits : \A j \in hits : j <= i

\* str.find for a one-token needle; 0 when absent
find(s, t) ==
    LET hits == {i \in 1..Len(s) : s[i] = t}
    IN IF hits = {} THEN 0 ELSE CHOOSE i \in hits : \A j \in hits : i <= j

\* str.split(sep): always at least one component
RECURSIVE split(_, _)
split(s, sep) ==
    LET i == find(s, sep)
    IN IF i = 0 THEN <<s>>
       ELSE <<SubSeq(s, 1, i - 1)>> \o split(SubSeq(s, i + 1, Len(s)), sep)

\* sep.join(parts)
RECURSIVE join(_, _)
join(parts, sep) ==
    IF parts = <<>> THEN <<>>
    ELSE IF Len(parts) = 1 THEN parts[1]
    ELSE parts[1] \o <<sep>> \o join(Tail(parts), sep)

\* str.replace(old, new) for one-token old and new
replace(s, old, new) == [i \in 1..Len(s) |-> IF s[i] = old THEN new ELSE s[i]]

\* str.lower on a token: the only upper-case chunks of the model
lower_token(t) ==
    CASE t = "H" -> "h"
      [] t = "PY" -> "py"
      [] OTHER -> t

\* str.lower
lower(s) == [i \in 1..Len(s) |-> lower_token(s[i])]

\* os.path.basename
basename(p) == SubSeq(p, rfind(p, SLASH) + 1, Len(p))

\* os.path.splitext(p)[1]: the extension starts at the last dot of the last
\* component, unless only dots precede it there
splitext_ext(p) ==
    LET sepIndex == rfind(p, SLASH)
        dotIndex == rfind(p, DOT)
    IN IF dotIndex > sepIndex
          /\ \E k \in (sepIndex + 1)..(dotIndex - 1) : p[k] # DOT
       THEN SubSeq(p, dotIndex, Len(p))
       ELSE <<>>

\* os.path.isabs
isabs(p) == startswith(p, <<SLASH>>)

CURDIR == <<DOT>>
PARDIR == <<DOT, DOT>>

\* the component loop of posixpath.normpath
RECURSIVE normpath_comps(_, _, _)
normpath_comps(comps, new_comps, initial_slashes) ==
    IF comps = <<>> THEN new_comps
    ELSE LET comp == Head(comps)
             n == Len(new_comps)
         IN IF comp = <<>> \/ comp = CURDIR
            THEN normpath_comps(Tail(comps), new_comps, initial_slashes)
            ELSE IF \/ comp # PARDIR
                    \/ (initial_slashes = 0 /\ n = 0)
                    \/ (n > 0 /\ new_comps[n] = PARDIR)
            THEN normpath_comps(Tail(comps), Append(new_comps, comp), initial_slashes)
            ELSE IF n > 0
            THEN normpath_comps(Tail(comps), SubSeq(new_comps, 1, n - 1), initial_slashes)
            ELSE normpath_comps(Tail(comps), new_comps, initial_slashes)

\* os.path.normpath
normpath(path) ==
    IF path = <<>> THEN CURDIR
    ELSE LET initial_slashes ==
                 IF ~startswith(path, <<SLASH>>) THEN 0
                 ELSE IF startswith(path, <<SLASH, SLASH>>)
                         /\ ~startswith(path, <<SLASH, SLASH, SLASH>>) THEN 2
                 ELSE 1
             body == join(normpath_comps(split(path, SLASH), <<>>, initial_slashes), SLASH)
             full == [i \in 1..initial_slashes |-> SLASH] \o body
         IN IF full = <<>> THEN CURDIR ELSE full

Range(s) == {s[i] : i \in 1..Len(s)}

(***************************************************************************)
(* Program constants                                                       *)
(***************************************************************************)
MAX_FILES == 5000
MAX_TOTAL_BYTES == 50 * 1024 * 1024

\* FILE_TYPES, in the dict's insertion order
FILE_TYPE_ORDER == <<"python", "cpp", "java", "web">>
FILE_TYPES ==
    [python |-> {<<DOT, "py">>},
     cpp    |-> {<<DOT, "c">>, <<DOT, "cpp">>, <<DOT, "h">>, <<DOT, "hpp">>},
     java   |-> {<<DOT, "java">>},
     web    |-> {<<DOT, "html">>, <<DOT, "htm">>, <<DOT, "css">>, <<DOT, "js">>,
                 <<DOT, "jsx">>, <<DOT, "ts">>, <<DOT, "tsx">>}]

\* the limit of the enumerate() loop over nx.simple_cycles
CYCLE_LIMIT == 25

(***************************************************************************)
(* Inputs: zip entries and uploads                                         *)
(***************************************************************************)
MaxEntries == 3      \* longest archive enumerated entry by entry

Stmt(k, a) == [kind |-> k, arg |-> a]
Entry(n, sz, sym, rd, c) ==
    [filename |-> n, file_size |-> sz, symlink |-> sym, readable |-> rd, content |-> c]

a_py == <<"a", DOT, "py">>
b_py == <<"b", DOT, "py">>
x_h == <<"x", DOT, "h">>
y_h == <<"y", DOT, "h">>
d_y_h == <<"d", SLASH>> \o y_h
e_y_h == <<"e", SLASH>> \o y_h
m_js == <<"m", DOT, "js">>
J_java == <<"J", DOT, "java">>
u_PY == <<"u", DOT, "PY">>
l_py == <<"l", DOT, "py">>
os_name == <<"os">>
evil_py == <<DOT, DOT, SLASH, "evil", DOT, "py">>
deep_evil_py == <<"d", SLASH, DOT, DOT, SLASH, DOT, DOT, SLASH, "evil", DOT, "py">>
abs_py == <<SLASH, "abs", DOT, "py">>

E_a == Entry(a_py, 1, FALSE, TRUE,
             <<Stmt("py_import", <<"os">>), Stmt("py_from", <<DOT, "b">>)>>)
E_b == Entry(b_py, 1, FALSE, TRUE,
             <<Stmt("py_import", <<"a">>), Stmt("py_import", <<"os", DOT, "path">>)>>)
E_x == Entry(x_h, 1, FALSE, TRUE,
             <<Stmt("c_include", y_h), Stmt("c_include", <<"stdio", DOT, "h">>)>>)
E_dy == Entry(d_y_h, 1, FALSE, TRUE,
              <<Stmt("c_include", x_h), Stmt("c_include", y_h)>>)
E_ey == Entry(e_y_h, 1, FALSE, TRUE, <<Stmt("c_include", x_h)>>)
E_m == Entry(m_js, 1, FALSE, TRUE,
             <<Stmt("require", <<"os">>),
               Stmt("es_import", <<DOT, SLASH>> \o m_js),
               Stmt("link_href", <<"css", SLASH, "s", DOT, "css">>)>>)
E_J == Entry(J_java, 1, FALSE, TRUE,
             <<Stmt("java_import", <<"java", DOT, "util", DOT, "List">>)>>)
E_u == Entry(u_PY, 1, FALSE, FALSE, <<Stmt("py_import", <<"os">>)>>)
E_l == Entry(l_py, 0, TRUE, TRUE, <<>>)
E_os == Entry(os_name, MAX_TOTAL_BYTES, FALSE, TRUE, <<>>)
E_evil == Entry(evil_py, 1, FALSE, TRUE, <<Stmt("py_import", <<"os">>)>>)
E_deep == Entry(deep_evil_py, 1, FALSE, TRUE, <<>>)
E_abs == Entry(abs_py, 1, FALSE, TRUE, <<>>)

Entries == {E_a, E_b, E_x, E_dy, E_ey, E_m, E_J, E_u, E_l, E_os, E_evil}

IsInjective(s) == \A i, j \in 1..Len(s) : i # j => s[i] # s[j]

SmallArchives ==
    {s \in UNION {[1..n -> Entries] : n \in 0..MaxEntries} : IsInjective(s)}

\* five headers that include each other and themselves
KName(i) == <<"k", i, DOT, "h">>
KNames == <<"1", "2", "3", "4", "5">>
KEntry(i) ==
    Entry(KName(KNames[i]), 1, FALSE, TRUE,
          [j \in 1..Len(KNames) |-> Stmt("c_include", KName(KNames[j]))])
DenseArchive == [i \in 1..Len(KNames) |-> KEntry(i)]

\* an archive of n copies of one small entry
Filler(n) == [i \in 1..n |-> Entry(<<"f", DOT, "txt">>, 0, FALSE, TRUE, <<>>)]

SpecialArchives ==
    {DenseArchive, Filler(MAX_FILES + 1),
     <<E_a, E_deep>>, <<E_a, E_abs>>, <<E_os, E_os>>}

Archives == SmallArchives \cup SpecialArchives

u_zip == <<"u", DOT, "zip">>
z_py == <<"z", DOT, "py">>
s_u_zip == <<"s", SLASH>> \o u_zip

Request(f, v, es) == [filename |-> f, valid |-> v, entries |-> es]

Uploads ==
    {Request(u_zip, TRUE, es) : es \in Archives}
    \cup {Request(z_py, TRUE, es) : es \in {s \in SmallArchives : Len(s) <= 1}}
    \cup {Request(s_u_zip, TRUE, <<E_a>>), Request(u_zip, FALSE, <<>>)}

(***************************************************************************)
(* _safe_extract_zip                                                       *)
(***************************************************************************)
RECURSIVE sum_sizes(_)
sum_sizes(infos) ==
    IF infos = <<>> THEN 0 ELSE Head(infos).file_size + sum_sizes(Tail(infos))

\* where ZipFile.extract puts a member: the name's components without the
\* empty, "." and ".." ones
extract_target(filename) ==
    LET comps == split(filename, SLASH)
        kept == SelectSeq(comps, LAMBDA c : c # <<>> /\ c # CURDIR /\ c # PARDIR)
    IN join(kept, SLASH)

DiskFile(p, c, rd) == [path |-> p, content |-> c, readable |-> rd]

\* writing a file replaces whatever had the same path
write_file(files, p, c, rd) == {f \in files : f.path # p} \cup {DiskFile(p, c, rd)}

\* zf.extract(info, dest_dir)
zf_extract(files, info) ==
    write_file(files, extract_target(info.filename), info.content, info.readable)

HTTP_TOO_MANY == "400 Too many files in zip."
HTTP_TOO_LARGE == "413 Zip too large."
HTTP_BAD_PATH == "400 Invalid zip entry path."
HTTP_BAD_ZIP == "400 Invalid ZIP file."
FILE_NOT_FOUND == "FileNotFoundError"
NO_ERROR == "none"

ZState(st, i, fs, r, fin) ==
    [stage |-> st, idx |-> i, files |-> fs, raised |-> r, finished |-> fin]

\* the limits checked only once the loop is over
safe_extract_step_late_check(infos, stage, idx, files) ==
    IF stage = "check"
    THEN ZState("loop", 1, files, NO_ERROR, FALSE)
    ELSE IF idx > Len(infos)
    THEN IF Len(infos) > MAX_FILES
         THEN ZState(stage, idx, files, HTTP_TOO_MANY, FALSE)
         ELSE IF sum_sizes(infos) > MAX_TOTAL_BYTES
         THEN ZState(stage, idx, files, HTTP_TOO_LARGE, FALSE)
         ELSE ZState(stage, idx, files, NO_ERROR, TRUE)
    ELSE LET info == infos[idx]
             norm == normpath(info.filename)
         IN IF startswith(norm, PARDIR) \/ isabs(norm)
            THEN ZState(stage, idx, files, HTTP_BAD_PATH, FALSE)
            ELSE IF info.symlink
            THEN ZState(stage, idx + 1, files, NO_ERROR, FALSE)
            ELSE ZState(stage, idx + 1, zf_extract(files, info), NO_ERROR, FALSE)

\* one step of _safe_extract_zip: the two limit checks, then one iteration of
\* the loop over zf.infolist() per step
safe_extract_step(infos, stage, idx, files) ==
    IF stage = "check"
    THEN IF Len(infos) > MAX_FILES
         THEN ZState(stage, idx, files, HTTP_TOO_MANY, FALSE)
         ELSE IF sum_sizes(infos) > MAX_TOTAL_BYTES
         THEN ZState(stage, idx, files, HTTP_TOO_LARGE, FALSE)
         ELSE ZState("loop", 1, files, NO_ERROR, FALSE)
    ELSE IF idx > Len(infos)
    THEN ZState(stage, idx, files, NO_ERROR, TRUE)
    ELSE LET info == infos[idx]
             norm == normpath(info.filename)
         IN IF startswith(norm, PARDIR) \/ isabs(norm)
            THEN ZState(stage, idx, files, HTTP_BAD_PATH, FALSE)
            ELSE IF info.symlink
            THEN ZState(stage, idx + 1, files, NO_ERROR, FALSE)
            ELSE ZState(stage, idx + 1, zf_extract(files, info), NO_ERROR, FALSE)

(***************************************************************************)
(* get_code_files, get_file_type, extract_dependencies                     *)
(***************************************************************************)
AllExtensions == UNION {FILE_TYPES[t] : t \in DOMAIN FILE_TYPES}

\* the test of get_code_files on one file name
is_code_file(fname) == lower(splitext_ext(fname)) \in AllExtensions

dirname(p) == SubSeq(p, 1, rfind(p, SLASH) - 1)

\* os.walk is top-down: the root's own files come first, and the files of one
\* directory come together; the order inside a directory is the file system's
walk_orders(paths) ==
    {s \in [1..Cardinality(paths) -> paths] :
        /\ IsInjective(s)
        /\ \A i, j \in 1..Len(s) :
              i < j /\ dirname(s[j]) = <<>> => dirname(s[i]) = <<>>
        /\ \A i, j, k \in 1..Len(s) :
              i < j /\ j < k /\ dirname(s[i]) = dirname(s[k])
                  => dirname(s[j]) = dirname(s[i])}

\* the lists get_code_files(tmpdir) can return, as paths relative to tmpdir
get_code_files(files) ==
    walk_orders({f.path : f \in {x \in files : is_code_file(basename(x.path))}})

RECURSIVE first_type(_, _)
first_type(ext, order) ==
    IF order = <<>> THEN "unknown"
    ELSE IF ext \in FILE_TYPES[Head(order)] THEN Head(order)
    ELSE first_type(ext, Tail(order))

get_file_type(fpath) == first_type(lower(splitext_ext(fpath)), FILE_TYPE_ORDER)

\* re.findall of one pattern: the captured argument of every statement the
\* pattern matches, in file order
findall(content, kinds) ==
    LET hits == SelectSeq(content, LAMBDA st : st.kind \in kinds)
    IN [i \in 1..Len(hits) |-> hits[i].arg]

\* a Python value that is either None or a list
PyList(l) == [none |-> FALSE, list |-> l]

extract_dependencies(file, ftype) ==
    IF ~file.readable THEN PyList(<<>>)          \* open() raises, except: pass
    ELSE IF ftype = "python"
    THEN PyList(findall(file.content, {"py_from", "py_import", "java_import"}))
    ELSE IF ftype \in {"cpp", "c"}
    THEN PyList(findall(file.content, {"c_include"}))
    ELSE IF ftype = "java"
    THEN PyList(findall(file.content, {"java_import"}))
    ELSE IF ftype \in {"web", "jsx", "tsx", "ts", "js"}
    THEN PyList(findall(file.content, {"es_import"})
                \o findall(file.content, {"require"})
                \o findall(file.content, {"script_src"})
                \o findall(file.content, {"link_href"}))
    ELSE PyList(<<>>)

(***************************************************************************)
(* The graph (nx.DiGraph): nodes and edges in insertion order, one node    *)
(* per id and one edge per (source, target)                                *)
(***************************************************************************)
EmptyGraph == [nodes |-> <<>>, edges |-> <<>>]

Node(id, type, label) == [id |-> id, type |-> type, label |-> label]
Edge(u, v, kind, external) == [source |-> u, target |-> v, kind |-> kind, external |-> external]

\* a node store that appends without looking for the id
add_node_append(G, id, type, label) ==
    [G EXCEPT !.nodes = Append(@, Node(id, type, label))]

\* g.add_node(id, type=..., label=...): a known id has its attributes overwritten
add_node(G, id, type, label) ==
    IF \E i \in 1..Len(G.nodes) : G.nodes[i].id = id
    THEN [G EXCEPT !.nodes =
             [i \in 1..Len(@) |-> IF @[i].id = id THEN Node(id, type, label) ELSE @[i]]]
    ELSE [G EXCEPT !.nodes = Append(@, Node(id, type, label))]

\* g.add_edge(u, v, kind=..., external=...); both ends are registered by the
\* caller before every call
add_edge(G, u, v, kind, external) ==
    IF \E i \in 1..Len(G.edges) : G.edges[i].source = u /\ G.edges[i].target = v
    THEN [G EXCEPT !.edges =
             [i \in 1..Len(@) |-> IF @[i].source = u /\ @[i].target = v
                                  THEN Edge(u, v, kind, external) ELSE @[i]]]
    ELSE [G EXCEPT !.edges = Append(@, Edge(u, v, kind, external))]

\* os.path.relpath(fpath, tmpdir).replace("\\", "/"); paths are kept relative
\* to tmpdir throughout
rel_path_of(fpath) == replace(fpath, BACKSLASH, SLASH)

\* lines 131-137: the internal file a dependency resolves to, or <<>> (None)
target_file_of(dep, cfs) ==
    IF startswith(dep, <<DOT>>)
       \/ basename(dep) \in {basename(cfs[i]) : i \in 1..Len(cfs)}
    THEN LET hits == {i \in 1..Len(cfs) : basename(cfs[i]) = basename(dep)}
         IN IF hits = {} THEN <<>>
            ELSE rel_path_of(cfs[CHOOSE i \in hits : \A j \in hits : i <= j])
    ELSE <<>>

\* line 142
dep_name_of(dep) == split(basename(dep), DOT)[1]

BuildState(G, ext) == [g |-> G, external_nodes |-> ext]

\* the external branch registering its edge as internal
add_dependency_flag_slip(S, rel_path, dep, cfs) ==
    IF dep = <<>> THEN S
    ELSE LET target_file == target_file_of(dep, cfs)
         IN IF target_file # <<>>
            THEN BuildState(
                     add_edge(add_node(S.g, target_file, get_file_type(target_file),
                                       basename(target_file)),
                              rel_path, target_file, "import", FALSE),
                     S.external_nodes)
            ELSE LET dep_name == dep_name_of(dep)
                 IN BuildState(
                        add_edge(add_node(S.g, dep_name, "external", dep_name),
                                 rel_path, dep_name, "import", FALSE),
                        S.external_nodes \cup {dep_name})

\* lines 129-145: one iteration of "for dep in deps"
add_dependency(S, rel_path, dep, cfs) ==
    IF dep = <<>> THEN S
    ELSE LET target_file == target_file_of(dep, cfs)
         IN IF target_file # <<>>
            THEN BuildState(
                     add_edge(add_node(S.g, target_file, get_file_type(target_file),
                                       basename(target_file)),
                              rel_path, target_file, "import", FALSE),
                     S.external_nodes)
            ELSE LET dep_name == dep_name_of(dep)
                 IN BuildState(
                        add_edge(add_node(S.g, dep_name, "external", dep_name),
                                 rel_path, dep_name, "import", TRUE),
                        S.external_nodes \cup {dep_name})

RECURSIVE add_dependencies(_, _, _, _)
add_dependencies(S, rel_path, deps, cfs) ==
    IF deps = <<>> THEN S
    ELSE add_dependencies(add_dependency(S, rel_path, Head(deps), cfs),
                          rel_path, Tail(deps), cfs)

(***************************************************************************)
(* Cycles: nx.simple_cycles over the internal subgraph, first CYCLE_LIMIT  *)
(***************************************************************************)
\* g.subgraph([n for n, d in g.nodes(data=True) if d.get("type") != "external"])
internal_sub(G) ==
    LET keep == SelectSeq(G.nodes, LAMBDA n : n.type # "external")
        ids == [i \in 1..Len(keep) |-> keep[i].id]
    IN [nodes |-> ids,
        edges |-> {<<e.source, e.target>> : e \in
                     {x \in Range(G.edges) : x.source \in Range(ids) /\ x.target \in Range(ids)}}]

sc_closed(sub, path) ==
    IF <<sub.nodes[path[Len(path)]], sub.nodes[path[1]]>> \in sub.edges
    THEN <<[i \in 1..Len(path) |-> sub.nodes[path[i]]]>>
    ELSE <<>>

\* depth-first extension of a simple path of node indices, over the nodes that
\* come after the path's first one; k is the next candidate
RECURSIVE sc_walk(_, _, _)
sc_walk(sub, path, k) ==
    IF k > Len(sub.nodes) THEN <<>>
    ELSE (IF /\ \A i \in 1..Len(path) : path[i] # k
             /\ <<sub.nodes[path[Len(path)]], sub.nodes[k]>> \in sub.edges
          THEN sc_closed(sub, Append(path, k)) \o sc_walk(sub, Append(path, k), path[1] + 1)
          ELSE <<>>)
         \o sc_walk(sub, path, k + 1)

RECURSIVE sc_from(_, _)
sc_from(sub, s) ==
    IF s > Len(sub.nodes) THEN <<>>
    ELSE sc_closed(sub, <<s>>) \o sc_walk(sub, <<s>>, s + 1) \o sc_from(sub, s + 1)

\* nx.simple_cycles(sub): every elementary circuit once.  The order of the
\* enumeration is the library's; here circuits come by their first node in
\* node order, depth first, and each starts at that node
simple_cycles(sub) == sc_from(sub, 1)

\* the loop without its break
collect_cycles_unbounded(G) == simple_cycles(internal_sub(G))

\* lines 148-156
collect_cycles(G) ==
    LET all == simple_cycles(internal_sub(G))
    IN SubSeq(all, 1, IF Len(all) < CYCLE_LIMIT THEN Len(all) ELSE CYCLE_LIMIT)

(***************************************************************************)
(* The response body                                                       *)
(***************************************************************************)
NoResponse == [kind |-> "none"]

Body(ns, es, nint, next, nskip, cyc) ==
    [kind |-> "json", nodes |-> ns, edges |-> es,
     meta |-> [internal_files |-> nint, external_pkgs |-> next,
               skipped_files |-> nskip, cycles |-> cyc]]

\* lines 159-170 (duration_ms is wall-clock time and is left out)
build_response(G, internal, external, nskip, cyc) ==
    Body([i \in 1..Len(G.nodes) |->
             [id |-> G.nodes[i].id, label |-> G.nodes[i].label, type |-> G.nodes[i].type]],
         [i \in 1..Len(G.edges) |->
             [id |-> G.edges[i].source \o <<"->">> \o G.edges[i].target,
              source |-> G.edges[i].source, target |-> G.edges[i].target,
              kind |-> G.edges[i].kind, external |-> G.edges[i].external]],
         Cardinality(internal), Cardinality(external), nskip, cyc)

(***************************************************************************)
(* analyze_code                                                            *)
(***************************************************************************)
TempDir(ex, fs) == [exists |-> ex, files |-> fs]

\* a directory removed only after a normal return
tmp_exit_on_success_only(td, err) ==
    IF err = NO_ERROR THEN TempDir(FALSE, {}) ELSE td

\* TemporaryDirectory.__exit__: the directory and all it holds are removed,
\* whether the block returned or raised
tmp_exit(td, err) == TempDir(FALSE, {})

FhOff == [pc |-> "off"]

Init ==
    /\ pc = "idle"
    /\ upload \in Uploads
    /\ tmpdir = TempDir(FALSE, {})
    /\ zstage = "check"
    /\ zidx = 0
    /\ error = NO_ERROR
    /\ code_files = <<>>
    /\ fidx = 0
    /\ g = EmptyGraph
    /\ internal_nodes = {}
    /\ external_nodes = {}
    /\ skipped = 0
    /\ cycles = <<>>
    /\ response = NoResponse
    /\ fh = FhOff

\* line 94: with tempfile.TemporaryDirectory() as tmpdir
EnterTempDir ==
    /\ pc = "idle"
    /\ tmpdir' = TempDir(TRUE, {})
    /\ pc' = "write"
    /\ UNCHANGED <<upload, zstage, zidx, error, code_files, fidx, g, internal_nodes,
                   external_nodes, skipped, cycles, response, fh>>

\* lines 95-97: the upload is written under its own name; a name with a
\* directory part names a directory that does not exist
WriteZip ==
    /\ pc = "write"
    /\ IF rfind(upload.filename, SLASH) # 0
       THEN /\ error' = FILE_NOT_FOUND
            /\ pc' = "raise"
            /\ UNCHANGED tmpdir
       ELSE /\ tmpdir' = [tmpdir EXCEPT !.files = write_file(@, upload.filename, <<>>, TRUE)]
            /\ pc' = "extract"
            /\ UNCHANGED error
    /\ UNCHANGED <<upload, zstage, zidx, code_files, fidx, g, internal_nodes,
                   external_nodes, skipped, cycles, response, fh>>

\* lines 99-102, one step of _safe_extract_zip at a time
SafeExtract ==
    /\ pc = "extract"
    /\ IF ~upload.valid
       THEN /\ error' = HTTP_BAD_ZIP
            /\ pc' = "raise"
            /\ UNCHANGED <<tmpdir, zstage, zidx>>
       ELSE LET z == safe_extract_step(upload.entries, zstage, zidx, tmpdir.files)
            IN /\ zstage' = z.stage
               /\ zidx' = z.idx
               /\ tmpdir' = [tmpdir EXCEPT !.files = z.files]
               /\ error' = z.raised
               /\ pc' = IF z.raised # NO_ERROR THEN "raise"
                        ELSE IF z.finished THEN "discover"
                        ELSE "extract"
    /\ UNCHANGED <<upload, code_files, fidx, g, internal_nodes, external_nodes,
                   skipped, cycles, response, fh>>

\* lines 104-114
GetCodeFiles ==
    /\ pc = "discover"
    /\ \E cfs \in get_code_files(tmpdir.files) :
          /\ code_files' = cfs
          /\ IF cfs = <<>>
             THEN /\ response' = Body(<<>>, <<>>, 0, 0, 0, <<>>)
                  /\ pc' = "return"
                  /\ UNCHANGED fidx
             ELSE /\ pc' = "build"
                  /\ fidx' = 1
                  /\ UNCHANGED response
    /\ g' = EmptyGraph
    /\ internal_nodes' = {}
    /\ external_nodes' = {}
    /\ skipped' = 0
    /\ UNCHANGED <<upload, tmpdir, zstage, zidx, error, cycles, fh>>

disk_file(files, p) == CHOOSE f \in files : f.path = p

\* lines 117-145: one iteration of "for fpath in code_files"
BuildFile ==
    /\ pc = "build"
    /\ fidx <= Len(code_files)
    /\ LET fpath == code_files[fidx]
           rel_path == rel_path_of(fpath)
           ftype == get_file_type(fpath)
           g1 == add_node(g, rel_path, ftype, basename(rel_path))
           deps == extract_dependencies(disk_file(tmpdir.files, fpath), ftype)
       IN /\ internal_nodes' = internal_nodes \cup {rel_path}
          /\ IF deps.none
             THEN /\ skipped' = skipped + 1
                  /\ g' = g1
                  /\ UNCHANGED external_nodes
             ELSE LET S == add_dependencies(BuildState(g1, external_nodes),
                                            rel_path, deps.list, code_files)
                  IN /\ g' = S.g
                     /\ external_nodes' = S.external_nodes
                     /\ UNCHANGED skipped
    /\ fidx' = fidx + 1
    /\ pc' = IF fidx = Len(code_files) THEN "cycles" ELSE "build"
    /\ UNCHANGED <<upload, tmpdir, zstage, zidx, error, code_files, cycles, response, fh>>

\* lines 147-156 (nx.simple_cycles never raises NetworkXNoCycle)
ComputeCycles ==
    /\ pc = "cycles"
    /\ cycles' = collect_cycles(g)
    /\ pc' = "respond"
    /\ UNCHANGED <<upload, tmpdir, zstage, zidx, error, code_files, fidx, g,
                   internal_nodes, external_nodes, skipped, response, fh>>

\* lines 158-170
PrepareResponse ==
    /\ pc = "respond"
    /\ response' = build_response(g, internal_nodes, external_nodes, skipped, cycles)
    /\ pc' = "return"
    /\ UNCHANGED <<upload, tmpdir, zstage, zidx, error, code_files, fidx, g,
                   internal_nodes, external_nodes, skipped, cycles, fh>>

\* leaving the with block of line 94, by return or by exception
ExitTempDir ==
    /\ pc \in {"return", "raise"}
    /\ tmpdir' = tmp_exit(tmpdir, error)
    /\ pc' = "done"
    /\ UNCHANGED <<upload, zstage, zidx, error, code_files, fidx, g, internal_nodes,
                   external_nodes, skipped, cycles, response, fh>>

Next ==
    \/ EnterTempDir
    \/ WriteZip
    \/ SafeExtract
    \/ GetCodeFiles
    \/ BuildFile
    \/ ComputeCycles
    \/ PrepareResponse
    \/ ExitTempDir

Spec == Init /\ [][Next]_vars

(***************************************************************************)
(* file_handler.py: module_name_from_path and extract_imports              *)
(***************************************************************************)
MaxImports == 2      \* most import statements in one parsed file

\* the identifier chunks of this part in code-point order; "." sorts before
\* every identifier character
TokenOrder == <<DOT, "__init__", "app", "b", "backend", "main", "my", "os",
                "path", "pkg", "py", "sub", "sys", "txt", "x">>

rank(t) == CHOOSE i \in 1..Len(TokenOrder) : TokenOrder[i] = t

\* s < t for Python strings
RECURSIVE str_less(_, _)
str_less(s, t) ==
    IF t = <<>> THEN FALSE
    ELSE IF s = <<>> THEN TRUE
    ELSE IF Head(s) = Head(t) THEN str_less(Tail(s), Tail(t))
    ELSE rank(Head(s)) < rank(Head(t))

\* sorted(a set of strings)
RECURSIVE sorted(_)
sorted(S) ==
    IF S = {} THEN <<>>
    ELSE LET m == CHOOSE x \in S : \A y \in S \ {x} : str_less(x, y)
         IN <<m>> \o sorted(S \ {m})

PY_SUFFIX == <<DOT, "py">>
INIT_NAME == <<"__init__">>

\* module_name_from_path, on os.path.relpath(file_path, root_dir)
module_name_from_path(rel_path) ==
    LET stem == IF endswith(rel_path, PY_SUFFIX)
                THEN SubSeq(rel_path, 1, Len(rel_path) - Len(PY_SUFFIX))
                ELSE rel_path
        parts == split(stem, SLASH)
        kept == IF parts[Len(parts)] = INIT_NAME
                THEN SubSeq(parts, 1, Len(parts) - 1)
                ELSE parts
    IN join(SelectSeq(kept, LAMBDA q : q # <<>>), DOT)

\* ast nodes: Import(names) and ImportFrom(module, level); a missing module
\* (None) is the empty string, as "node.module or ''" makes it
Import(names) == [type |-> "Import", names |-> names, module |-> <<>>, level |-> 0]
ImportFrom(module, level) ==
    [type |-> "ImportFrom", names |-> <<>>, module |-> module, level |-> level]

\* going up one package too few
relative_full_off_by_one(current_module, level, base) ==
    LET cur_parts == split(current_module, DOT)
        up == IF level <= Len(cur_parts)
              THEN SubSeq(cur_parts, 1, Len(cur_parts) - level + 1)
              ELSE <<>>
    IN IF base # <<>> THEN join(Append(up, base), DOT) ELSE join(up, DOT)

\* lines 90-96: the name a relative import stands for
relative_full(current_module, level, base) ==
    LET cur_parts == split(current_module, DOT)
        up == IF level <= Len(cur_parts)
              THEN SubSeq(cur_parts, 1, Len(cur_parts) - level)
              ELSE <<>>
    IN IF base # <<>> THEN join(Append(up, base), DOT) ELSE join(up, DOT)

\* lines 83-101: what one node adds to the set
node_imports(node, current_module) ==
    IF node.type = "Import"
    THEN {node.names[i] : i \in 1..Len(node.names)} \ {<<>>}
    ELSE IF node.level # 0
    THEN {relative_full(current_module, node.level, node.module)} \ {<<>>}
    ELSE {node.module} \ {<<>>}

\* extract_imports: [] on a syntax error, else the sorted set
extract_imports(syntax_ok, tree, current_module) ==
    IF ~syntax_ok THEN <<>>
    ELSE sorted(UNION {node_imports(tree[i], current_module) : i \in 1..Len(tree)})

ScanPaths ==
    {<<"backend", SLASH, "app", SLASH, "main", DOT, "py">>,
     <<"backend", SLASH, "app", SLASH, "__init__", DOT, "py">>,
     <<"backend", SLASH, "__init__", DOT, "py">>,
     <<"__init__", DOT, "py">>,
     <<"main", DOT, "py">>,
     <<"backend", SLASH, "my", DOT, "pkg", SLASH, "x", DOT, "py">>,
     <<"backend", SLASH, "main", DOT, "txt">>}

AstNodes ==
    {Import(<<<<"os">>>>),
     Import(<<<<"os", DOT, "path">>, <<"sys">>>>),
     ImportFrom(<<"os">>, 0),
     ImportFrom(<<>>, 1),
     ImportFrom(<<"b">>, 1),
     ImportFrom(<<>>, 2),
     ImportFrom(<<"pkg", DOT, "sub">>, 2),
     ImportFrom(<<"x">>, 3)}

Trees == UNION {[1..n -> AstNodes] : n \in 0..MaxImports}

Scan(p, ok, t) ==
    [pc |-> "start", path |-> p, syntax_ok |-> ok, tree |-> t,
     current_module |-> <<>>, imports |-> <<>>]

Scans ==
    {Scan(p, TRUE, t) : p \in ScanPaths, t \in Trees}
    \cup {Scan(p, FALSE, <<>>) : p \in ScanPaths}

InitImports ==
    /\ pc = "off"
    /\ upload = Request(u_zip, TRUE, <<>>)
    /\ tmpdir = TempDir(FALSE, {})
    /\ zstage = "check"
    /\ zidx = 0
    /\ error = NO_ERROR
    /\ code_files = <<>>
    /\ fidx = 0
    /\ g = EmptyGraph
    /\ internal_nodes = {}
    /\ external_nodes = {}
    /\ skipped = 0
    /\ cycles = <<>>
    /\ response = NoResponse
    /\ fh \in Scans

\* current_module = module_name_from_path(root_dir, path)
FhModuleName ==
    /\ fh.pc = "start"
    /\ fh' = [fh EXCEPT !.pc = "named",
                        !.current_module = module_name_from_path(fh.path)]
    /\ UNCHANGED analyzeVars

\* imports = extract_imports(path, current_module)
FhExtractImports ==
    /\ fh.pc = "named"
    /\ fh' = [fh EXCEPT !.pc = "done",
                        !.imports = extract_imports(fh.syntax_ok, fh.tree, fh.current_module)]
    /\ UNCHANGED analyzeVars

NextImports ==
    \/ FhModuleName
    \/ FhExtractImports

SpecImports == InitImports /\ [][NextImports]_vars

(***************************************************************************)
(* Properties                                                              *)
(***************************************************************************)
Returned == pc = "return" /\ response.kind = "json"

UploadedZip == DiskFile(upload.filename, <<>>, TRUE)

\* the files of tmpdir that came out of the archive
ExtractedFiles == tmpdir.files \ {UploadedZip}

HasEdge(u, v, ext) ==
    \E e \in Range(response.edges) : e.source = u /\ e.target = v /\ e.external = ext

\* C1: analysing an archive of a.py (import os; from .b import x) and b.py
\* yields the internal edge a.py -> b.py and the external edge a.py -> os.
C1_ScenarioEdges ==
    (Returned /\ Range(upload.entries) = {E_a, E_b})
        => /\ HasEdge(a_py, b_py, FALSE)
           /\ HasEdge(a_py, <<"os">>, TRUE)

\* the entry's normalized path is absolute, or is ".." or lies under "../"
EscapesDest(info) ==
    LET norm == normpath(info.filename)
    IN norm = PARDIR \/ startswith(norm, PARDIR \o <<SLASH>>) \/ startswith(norm, <<SLASH>>)

WithinLimits ==
    /\ Len(upload.entries) <= MAX_FILES
    /\ sum_sizes(upload.entries) <= MAX_TOTAL_BYTES

\* C2: an archive with an entry whose normalized path is absolute or escapes
\* the destination is rejected, and when it is rejected no entry of it has
\* been extracted, the entries listed before the offending one included.
C2_RejectedWithNothingExtracted ==
    (upload.valid /\ \E i \in 1..Len(upload.entries) : EscapesDest(upload.entries[i]))
        => /\ pc \notin {"discover", "build", "cycles", "respond", "return"}
           /\ pc = "raise" => ExtractedFiles = {}

UnreadableFiles ==
    {i \in 1..Len(code_files) : ~disk_file(tmpdir.files, code_files[i]).readable}

\* C3: a file that cannot be read yields no dependencies, is counted in
\* skipped_files (which equals the number of such files), and the analysis
\* goes on with the other files.
C3_UnreadableFilesAreSkipped ==
    Returned =>
        /\ \A i \in UnreadableFiles :
              \A e \in Range(response.edges) : e.source # rel_path_of(code_files[i])
        /\ response.meta.skipped_files = Cardinality(UnreadableFiles)
        /\ \A i \in 1..Len(code_files) :
              \E n \in Range(response.nodes) : n.id = rel_path_of(code_files[i])

\* C4: in every result, an edge's external flag is true exactly when its
\* target is a node of type "external".
C4_ExternalFlagIffExternalTarget ==
    response.kind = "json" =>
        \A e \in Range(response.edges) :
            e.external <=> (\E n \in Range(response.nodes) :
                               n.id = e.target /\ n.type = "external")

C4_Witness ==
    /\ Returned
    /\ \E e1, e2 \in Range(response.edges) : e1.external /\ ~e2.external

\* C5: every discovered source file is the id of exactly one node of the
\* result, whatever its dependencies and however often it is a target.
C5_EachFileExactlyOneNode ==
    Returned =>
        \A i \in 1..Len(code_files) :
            Cardinality({k \in 1..Len(response.nodes) :
                            response.nodes[k].id = rel_path_of(code_files[i])}) = 1

C5_Witness ==
    /\ Returned
    /\ \E i \in 1..Len(code_files) :
          \A e \in Range(response.edges) : e.source # rel_path_of(code_files[i])
    /\ \E e1, e2 \in Range(response.edges) :
          e1 # e2 /\ e1.target = e2.target /\ ~e1.external

\* C6: the temporary directory is gone when the request ends, on every exit
\* path: a result, the empty-archive return, and every error.
C6_TempDirRemovedOnEveryExit ==
    pc = "done" => ~tmpdir.exists /\ tmpdir.files = {}

C6_Witness ==
    /\ pc = "done"
    /\ error = HTTP_BAD_PATH
    /\ zidx > 1

\* C7: an archive with more than MAX_FILES entries or more than
\* MAX_TOTAL_BYTES of content is rejected with no entry written.
C7_LimitsRejectBeforeExtraction ==
    (upload.valid /\ ~WithinLimits)
        => /\ pc \notin {"discover", "build", "cycles", "respond", "return"}
           /\ pc \in {"raise", "done"}
                 => /\ error \in {HTTP_TOO_MANY, HTTP_TOO_LARGE}
                    /\ zstage = "check"
           /\ ExtractedFiles = {}

C7_Witness ==
    /\ pc = "raise"
    /\ error = HTTP_TOO_MANY
    /\ Len(upload.entries) > MAX_FILES
    /\ tmpdir.files = {UploadedZip}

\* the last path segment without its extension
stem(p) ==
    LET b == basename(p)
    IN SubSeq(b, 1, Len(b) - Len(splitext_ext(b)))

StemMatches(dep) == {j \in 1..Len(code_files) : stem(code_files[j]) = stem(dep)}

FirstOf(S) == CHOOSE j \in S : \A k \in S : j <= k

DepsOf(i) ==
    extract_dependencies(disk_file(tmpdir.files, code_files[i]),
                         get_file_type(code_files[i])).list

\* C8: a dependency that starts with "." or whose last segment, without
\* extension, equals that of a discovered file is internal, its target the
\* first such file in discovery order; any other dependency is external.
C8_ResolutionPolicy ==
    Returned =>
        \A i \in 1..Len(code_files) :
            \A k \in 1..Len(DepsOf(i)) :
                LET dep == DepsOf(i)[k]
                    src == rel_path_of(code_files[i])
                    hits == StemMatches(dep)
                IN dep # <<>> =>
                      IF startswith(dep, <<DOT>>) \/ hits # {}
                      THEN \E e \in Range(response.edges) :
                              /\ e.source = src
                              /\ ~e.external
                              /\ hits # {} => e.target = rel_path_of(code_files[FirstOf(hits)])
                      ELSE HasEdge(src, dep_name_of(dep), TRUE)

InternalIds ==
    {n.id : n \in {x \in Range(response.nodes) : x.type # "external"}}

InternalArc(u, v) ==
    /\ u \in InternalIds
    /\ v \in InternalIds
    /\ \E e \in Range(response.edges) : e.source = u /\ e.target = v

\* c is an elementary circuit of the internal subgraph
IsCircuit(c) ==
    /\ Len(c) >= 1
    /\ IsInjective(c)
    /\ \A i \in 1..(Len(c) - 1) : InternalArc(c[i], c[i + 1])
    /\ InternalArc(c[Len(c)], c[1])

\* the same circuit, written from another of its nodes
SameCircuit(c, d) ==
    /\ Len(c) = Len(d)
    /\ \E r \in 0..(Len(c) - 1) :
          \A i \in 1..Len(c) : d[i] = c[((i - 1 + r) % Len(c)) + 1]

\* only a node with an arc in and an arc out lies on a circuit
OnSomeArcPair ==
    {v \in InternalIds : (\E u \in InternalIds : InternalArc(u, v))
                         /\ (\E w \in InternalIds : InternalArc(v, w))}

AllCircuits ==
    {c \in UNION {[1..n -> OnSomeArcPair] : n \in 1..Cardinality(OnSomeArcPair)} :
        IsCircuit(c)}

NodePos(id) == CHOOSE k \in 1..Len(response.nodes) : response.nodes[k].id = id

\* one writing per circuit: the one that starts at its earliest node
DistinctCircuits ==
    {c \in AllCircuits : \A i \in 1..Len(c) : NodePos(c[1]) <= NodePos(c[i])}

\* C9: at most 25 cycles are reported; each is an elementary circuit of the
\* subgraph of the non-external nodes; none is reported twice; when that
\* subgraph has at most 25 circuits all are reported (none: an empty list).
C9_CyclesAreTheElementaryCircuits ==
    Returned =>
        LET cyc == response.meta.cycles
        IN /\ Len(cyc) <= 25
           /\ \A i \in 1..Len(cyc) : IsCircuit(cyc[i])
           /\ \A i, j \in 1..Len(cyc) : i < j => ~SameCircuit(cyc[i], cyc[j])
           /\ Cardinality(DistinctCircuits) <= 25
                 => \A c \in DistinctCircuits :
                       \E i \in 1..Len(cyc) : SameCircuit(cyc[i], c)
           /\ DistinctCircuits = {} => cyc = <<>>

C9_Witness ==
    /\ Returned
    /\ Len(response.meta.cycles) = 25
    /\ Cardinality(DistinctCircuits) > 25
    /\ \E i \in 1..25 : Len(response.meta.cycles[i]) = 1
    /\ \E i \in 1..25 : Len(response.meta.cycles[i]) > 2

\* the path with "/" turned into ".", the ".py" suffix and a trailing
\* __init__ segment left out
DottedPath(rel_path) ==
    LET stem_ == IF endswith(rel_path, PY_SUFFIX)
                 THEN SubSeq(rel_path, 1, Len(rel_path) - Len(PY_SUFFIX))
                 ELSE rel_path
        dotted == replace(stem_, SLASH, DOT)
    IN IF dotted = INIT_NAME THEN <<>>
       ELSE IF endswith(dotted, <<DOT>> \o INIT_NAME)
       THEN SubSeq(dotted, 1, Len(dotted) - 2)
       ELSE dotted

\* what the claim reports for a relative import of the given level and base
\* in a module of at least that many segments
ExpectedRelative(module, level, base) ==
    LET segs == split(module, DOT)
        first == SubSeq(segs, 1, Len(segs) - level)
    IN join(IF base = <<>> THEN first ELSE Append(first, base), DOT)

\* C10: a relative import of level N >= 1 and base B, in a module of k >= N
\* segments, is reported as the first k-N segments joined by dots with B
\* appended (those segments alone when B is empty; nothing when that is the
\* empty string); the module name is the file's path relative to the root
\* with separators turned into dots and a trailing __init__ segment dropped.
C10_RelativeImportsResolved ==
    /\ fh.pc \in {"named", "done"} => fh.current_module = DottedPath(fh.path)
    /\ (fh.pc = "done" /\ fh.syntax_ok) =>
          /\ <<>> \notin Range(fh.imports)
          /\ \A i \in 1..Len(fh.tree) :
                LET node == fh.tree[i]
                    k == Len(split(fh.current_module, DOT))
                    want == ExpectedRelative(fh.current_module, node.level, node.module)
                IN (node.type = "ImportFrom" /\ node.level >= 1 /\ k >= node.level)
                      => /\ want # <<>> => want \in Range(fh.imports)
                         /\ Len(fh.tree) = 1 =>
                               fh.imports = IF want = <<>> THEN <<>> ELSE <<want>>

C10_Witness ==
    /\ fh.pc = "done"
    /\ fh.syntax_ok
    /\ fh.current_module = <<"backend", DOT, "app", DOT, "main">>
    /\ \E i \in 1..Len(fh.tree) : fh.tree[i].level = 2 /\ fh.tree[i].module # <<>>
    /\ <<"backend", DOT, "pkg", DOT, "sub">> \in Range(fh.imports)

====
